---- MODULE Spec2Model ----
(***************************************************************************)
(* Model of the view/controller logic of the HTTP Toolkit UI fragment:     *)
(*   - RuleRow         (src/components/mock/rule-row.tsx)                   *)
(*   - InterceptOption (intercept option card)                             *)
(*   - ExchangeBreakpointResponseCard (breakpoint response editor)         *)
(* Objects (matchers, handlers, arrays) are named by strings, so that two  *)
(* distinct objects may carry the same value.                              *)
(***************************************************************************)
EXTENDS Integers, Sequences, FiniteSets, TLC

\* ------------------------------------------------------------------ bounds
MaxLen == 3          \* longest matcher list explored
MaxNew == 2          \* most matchers one editor change supplies

Undefined == "undefined"

Min(a, b) == IF a < b THEN a ELSE b
Max(a, b) == IF a > b THEN a ELSE b

\* ------------------------------------------------------- matcher objects
\* Three matcher objects.  m1 and m2 are distinct objects with equal value
\* (two method matchers for GET); m3 is a matcher of another kind.
Matchers == {"m1", "m2", "m3"}

MatcherValue(m) ==
    CASE m = "m1" -> [type |-> "method", method |-> "GET"]
      [] m = "m2" -> [type |-> "method", method |-> "GET"]
      [] OTHER    -> [type |-> "simple-path", method |-> Undefined]

\* initialMatcher instanceof matchers.MethodMatcher
IsMethodMatcher(m) == m # Undefined /\ MatcherValue(m).type = "method"

Handlers == {"h1", "h2"}

\* Sequences over S of length lo..hi
SeqsOf(S, lo, hi) == UNION {[1..n -> S] : n \in lo..hi}

\* What an editor may hand to its onChange: (...ms), any number of matchers
NewMatchers == SeqsOf(Matchers, 0, MaxNew)

\* Array objects that rule.matchers may reference.  "list0" is the array the
\* rule had when the row was created; an array allocated later is named by an
\* identifier that no live reference (the rule's, or the original holder's) uses.
ListObjs == {"list0", "list1", "list2"}

VARIABLES
    matchers,      \* rule.matchers: contents of the array, in order
    matchersObj,   \* rule.matchers: which array object the rule references
    handler,       \* rule.handler
    collapsed,     \* props.collapsed
    call,          \* history: the handler invoked by the last step, its arguments,
                   \*          and the length of the matcher list it started from
    lastHandler,   \* history: the argument of the most recent updateHandler call,
                   \*          or the rule's original handler when there was none
    replacedWithNone, \* history: some updateMatcher call supplied no matcher at all
    \* --- InterceptOption
    expanded,          \* @observable expanded
    interceptor,       \* props.interceptor, owned by the interceptor store
    activateCalls,     \* the calls made to interceptorStore.activateInterceptor, in order
    pendingClicks,     \* promises returned to onClick that have not settled yet
    showRequestsCalls, \* how often props.showRequests was called
    okSettled,         \* history: how many onClick activations resolved truthy
    ocall,             \* history: the card operation or store event of the last step
    \* --- ExchangeBreakpointResponseCard
    inProgressResult,  \* exchange.responseBreakpoint.inProgressResult, owned by the exchange
    onChangeCount,     \* how often props.onChange was called
    lastChange,        \* the partial result handed to the most recent props.onChange call
    bcall              \* history: the edit handler invoked by the last step and its arguments

rowVars == <<matchers, matchersObj, handler, collapsed, call, lastHandler, replacedWithNone>>

optionVars == <<expanded, interceptor, activateCalls, pendingClicks, showRequestsCalls,
                okSettled, ocall>>

cardVars == <<inProgressResult, onChangeCount, lastChange, bcall>>

vars == <<matchers, matchersObj, handler, collapsed, call, lastHandler, replacedWithNone,
          expanded, interceptor, activateCalls, pendingClicks, showRequestsCalls,
          okSettled, ocall,
          inProgressResult, onChangeCount, lastChange, bcall>>

\* ------------------------------------------- values of the response card
\* A status code as the status editor hands it over: number | ''.
\* A number is its value, or not-a-number; '' is the empty string.
JsNumber(n) == [type |-> "number", nan |-> FALSE, n |-> n]

NaN == [type |-> "number", nan |-> TRUE, n |-> 0]

EmptyString == [type |-> "string", nan |-> FALSE, n |-> 0]

StatusCodes == {EmptyString, NaN, JsNumber(0), JsNumber(200), JsNumber(404), JsNumber(-1)}

\* statusMessage: string | undefined
StatusMessages == {Undefined, "", "OK"}

\* HeadersArray: a list of [name, value] pairs, as the headers editor hands it over
HeaderPairs == {<<"Content-Type", "text/plain">>, <<"content-type", "text/html">>}

\* No onChange call was made yet: a partial result without fields
NoChange == <<>>

NoEdit == [op |-> "none", statusCode |-> EmptyString, statusMessage |-> Undefined,
           headers |-> <<>>]

\* No breakpoint response card is mounted.
NoCard ==
    /\ inProgressResult = [statusCode |-> JsNumber(200), statusMessage |-> Undefined,
                           headers |-> <<"headersArrayToHeaders", <<>> >>]
    /\ onChangeCount = 0
    /\ lastChange = NoChange
    /\ bcall = NoEdit

NoCall == [op |-> "none", index |-> 0, ms |-> <<>>, h |-> Undefined, len |-> 0]

Called(op, index, ms, h) ==
    call' = [op |-> op, index |-> index, ms |-> ms, h |-> h, len |-> Len(matchers)]

\* ------------------------------------------------- Array.prototype helpers
\* Array.prototype.splice(start, deleteCount, ...items) on contents S
\* (start is a 0-based index, clamped as the language defines).
splice(S, start, deleteCount, items) ==
    LET len          == Len(S)
        actualStart  == IF start < 0 THEN Max(len + start, 0) ELSE Min(start, len)
        actualDelete == Min(Max(deleteCount, 0), len - actualStart)
    IN  [i \in 1..(len - actualDelete + Len(items)) |->
            IF i <= actualStart THEN S[i]
            ELSE IF i <= actualStart + Len(items) THEN items[i - actualStart]
            ELSE S[i - Len(items) + actualDelete]]

\* A newly allocated array object: distinct from the one the rule references
\* now and from the original one.
NewListObj == IF matchersObj = "list1" THEN "list2" ELSE "list1"

\* ------------------------------------------------------- RuleRow methods
\* variant of addMatcher: appends to a copy and assigns the copy
addMatcherByCopy(matcher) ==
    /\ matchers' = Append(matchers, matcher)
    /\ matchersObj' = NewListObj
    /\ UNCHANGED handler

\* addMatcher(matcher): this.props.value.matchers.push(matcher)
addMatcher(matcher) ==
    /\ matchers' = Append(matchers, matcher)
    /\ UNCHANGED <<matchersObj, handler>>

\* variant of updateMatcher: splice with deleteCount 0
updateMatcherKeepsOld(index, ms) ==
    /\ matchers' = splice(matchers, index, 0, ms)
    /\ UNCHANGED <<matchersObj, handler>>

\* updateMatcher(index, ...matchers): matchers.splice(index, 1, ...matchers)
updateMatcher(index, ms) ==
    /\ matchers' = splice(matchers, index, 1, ms)
    /\ UNCHANGED <<matchersObj, handler>>

\* variant of deleteMatcher: compares by value (deep equality), not by identity
deleteMatcherByValue(matcher) ==
    /\ matchers' = SelectSeq(matchers, LAMBDA m : MatcherValue(m) # MatcherValue(matcher))
    /\ matchersObj' = NewListObj
    /\ UNCHANGED handler

\* deleteMatcher(matcher): rule.matchers = rule.matchers.filter(m => m !== matcher)
deleteMatcher(matcher) ==
    /\ matchers' = SelectSeq(matchers, LAMBDA m : m # matcher)
    /\ matchersObj' = NewListObj
    /\ UNCHANGED handler

\* variant of updateHandler: the assignment does not reach the rule
updateHandlerOnCopy(h) ==
    UNCHANGED <<handler, matchers, matchersObj>>

\* updateHandler(handler): this.props.value.handler = handler
updateHandler(h) ==
    /\ handler' = h
    /\ UNCHANGED <<matchers, matchersObj>>

\* ------------------------------------------------------- RuleRow.render
\* variant of initialMatcherOf: takes the last matcher
initialMatcherLast(S) == IF Len(S) # 0 THEN S[Len(S)] ELSE Undefined

\* const initialMatcher = rule.matchers.length ? rule.matchers[0] : undefined
initialMatcherOf(S) == IF Len(S) # 0 THEN S[1] ELSE Undefined

initialMatcher == initialMatcherOf(matchers)

\* let method: string | undefined
method ==
    IF IsMethodMatcher(initialMatcher) THEN MatcherValue(initialMatcher).method
    ELSE IF initialMatcher # Undefined THEN "unknown"
    ELSE Undefined

\* borderColor={method ? getMethodColor(method) : 'transparent'}
borderColor ==
    IF method # Undefined THEN <<"getMethodColor", method>> ELSE <<"transparent">>

\* variant of existingMatcherRows: map over matchers, without slice(1)
existingMatcherRowsAll == 0..(Len(matchers) - 1)

\* rule.matchers.slice(1).map((matcher, i) => <ExistingMatcherRow ... />):
\* the 0-based indices i + 1 of the rows that get an editor and a delete control
existingMatcherRows == 1..(Len(matchers) - 1)

\* variant of showNewMatcherRow: rendered without the length test
showNewMatcherRowAlways == TRUE

\* rule.matchers.length > 0 && <NewMatcherRow onAdd={this.addMatcher} />
showNewMatcherRow == Len(matchers) > 0

\* ---------------------------------------------------- RuleRow: UI events
\* The row as rendered: the details (and so every editor) exist only while
\* the row is not collapsed.

\* <InitialMatcherRow onChange={(...ms) => this.updateMatcher(0, ...ms)} />
InitialMatcherChange ==
    /\ ~collapsed
    /\ \E ms \in NewMatchers :
        /\ Len(splice(matchers, 0, 1, ms)) <= MaxLen
        /\ updateMatcher(0, ms)
        /\ Called("updateMatcher", 0, ms, Undefined)
        /\ replacedWithNone' = (replacedWithNone \/ ms = <<>>)
    /\ UNCHANGED <<collapsed, lastHandler>>
    /\ UNCHANGED optionVars
    /\ UNCHANGED cardVars

\* <ExistingMatcherRow onChange={(...ms) => this.updateMatcher(i + 1, ...ms)} />
ExistingMatcherChange ==
    /\ ~collapsed
    /\ \E index \in existingMatcherRows, ms \in NewMatchers :
        /\ Len(splice(matchers, index, 1, ms)) <= MaxLen
        /\ updateMatcher(index, ms)
        /\ Called("updateMatcher", index, ms, Undefined)
        /\ replacedWithNone' = (replacedWithNone \/ ms = <<>>)
    /\ UNCHANGED <<collapsed, lastHandler>>
    /\ UNCHANGED optionVars
    /\ UNCHANGED cardVars

\* <ExistingMatcherRow onDelete={() => this.deleteMatcher(matcher)} />
ExistingMatcherDelete ==
    /\ ~collapsed
    /\ \E index \in existingMatcherRows :
        /\ deleteMatcher(matchers[index + 1])
        /\ Called("deleteMatcher", index, <<matchers[index + 1]>>, Undefined)
    /\ UNCHANGED <<collapsed, lastHandler, replacedWithNone>>
    /\ UNCHANGED optionVars
    /\ UNCHANGED cardVars

\* <NewMatcherRow onAdd={this.addMatcher} />
NewMatcherAdd ==
    /\ ~collapsed
    /\ showNewMatcherRow
    /\ Len(matchers) < MaxLen
    /\ \E m \in Matchers :
        /\ addMatcher(m)
        /\ Called("addMatcher", Len(matchers), <<m>>, Undefined)
    /\ UNCHANGED <<collapsed, lastHandler, replacedWithNone>>
    /\ UNCHANGED optionVars
    /\ UNCHANGED cardVars

\* <HandlerSelector onChange={this.updateHandler} />,
\* <HandlerConfiguration onChange={this.updateHandler} />
HandlerChange ==
    /\ ~collapsed
    /\ \E h \in Handlers :
        /\ updateHandler(h)
        /\ Called("updateHandler", 0, <<>>, h)
        /\ lastHandler' = h
    /\ UNCHANGED <<collapsed, replacedWithNone>>
    /\ UNCHANGED optionVars
    /\ UNCHANGED cardVars

\* toggleCollapse: this.props.toggleCollapse() (the owner flips props.collapsed)
toggleCollapse ==
    /\ collapsed' = ~collapsed
    /\ Called("toggleCollapse", 0, <<>>, Undefined)
    /\ UNCHANGED <<matchers, matchersObj, handler, lastHandler, replacedWithNone>>
    /\ UNCHANGED optionVars
    /\ UNCHANGED cardVars

\* No intercept option card is mounted next to the row.
NoOption ==
    /\ expanded = FALSE
    /\ interceptor = [id |-> Undefined, isActive |-> FALSE, isActivable |-> FALSE,
                      isSupported |-> FALSE, inProgress |-> FALSE, uiConfig |-> FALSE]
    /\ activateCalls = <<>>
    /\ pendingClicks = 0
    /\ showRequestsCalls = 0
    /\ okSettled = 0
    /\ ocall = [op |-> "none", result |-> Undefined]

RowInit ==
    /\ matchers = <<>>
    /\ matchersObj = "list0"
    /\ handler \in Handlers
    /\ lastHandler = handler
    /\ collapsed \in BOOLEAN
    /\ call = NoCall
    /\ replacedWithNone = FALSE
    /\ NoOption
    /\ NoCard

RowNext ==
    \/ InitialMatcherChange
    \/ ExistingMatcherChange
    \/ ExistingMatcherDelete
    \/ NewMatcherAdd
    \/ HandlerChange
    \/ toggleCollapse

\* The row driven through what render() offers.
SpecRow == RowInit /\ [][RowNext]_vars

\* ------------------------------------------- RuleRow: the methods as such
\* The four bound methods called with any argument: any index from 0 to the
\* length of the list, any matcher object, whether or not it is in the list.

CallAddMatcher ==
    /\ Len(matchers) < MaxLen
    /\ \E m \in Matchers :
        /\ addMatcher(m)
        /\ Called("addMatcher", Len(matchers), <<m>>, Undefined)
    /\ UNCHANGED <<collapsed, lastHandler, replacedWithNone>>
    /\ UNCHANGED optionVars
    /\ UNCHANGED cardVars

CallUpdateMatcher ==
    /\ \E index \in 0..Len(matchers), ms \in NewMatchers :
        /\ Len(splice(matchers, index, 1, ms)) <= MaxLen
        /\ updateMatcher(index, ms)
        /\ Called("updateMatcher", index, ms, Undefined)
        /\ replacedWithNone' = (replacedWithNone \/ ms = <<>>)
    /\ UNCHANGED <<collapsed, lastHandler>>
    /\ UNCHANGED optionVars
    /\ UNCHANGED cardVars

CallDeleteMatcher ==
    /\ \E m \in Matchers :
        /\ deleteMatcher(m)
        /\ Called("deleteMatcher", 0, <<m>>, Undefined)
    /\ UNCHANGED <<collapsed, lastHandler, replacedWithNone>>
    /\ UNCHANGED optionVars
    /\ UNCHANGED cardVars

CallUpdateHandler ==
    /\ \E h \in Handlers :
        /\ updateHandler(h)
        /\ Called("updateHandler", 0, <<>>, h)
        /\ lastHandler' = h
    /\ UNCHANGED <<collapsed, replacedWithNone>>
    /\ UNCHANGED optionVars
    /\ UNCHANGED cardVars

MethodsNext ==
    \/ CallAddMatcher
    \/ CallUpdateMatcher
    \/ CallDeleteMatcher
    \/ CallUpdateHandler

SpecMethods == RowInit /\ [][MethodsNext]_vars

\* ======================================================== RuleRow: claims

MatcherOps == {"addMatcher", "updateMatcher", "deleteMatcher"}

\* S with every occurrence of the object m taken out, the rest in order
RECURSIVE Without(_, _)
Without(S, m) ==
    IF S = <<>> THEN <<>>
    ELSE IF Head(S) = m THEN Without(Tail(S), m)
    ELSE <<Head(S)>> \o Without(Tail(S), m)

Occurs(S, m) == \E i \in 1..Len(S) : S[i] = m

\* C1: updateMatcher(i, m1..mk), for 0 <= i < len(S) or i = len(S) = 0, leaves
\* the list equal to S[0..i-1] ++ [m1..mk] ++ S[i+1..]: one element replaced by
\* the k given ones, new length len(S) - 1 + k (k when the list was empty).
C1_UpdateReplacesOneWithMany ==
    [][ (/\ call'.op = "updateMatcher"
         /\ \/ call'.index < Len(matchers)
            \/ (call'.index = 0 /\ Len(matchers) = 0))
        => LET i  == call'.index
               ms == call'.ms
           IN  /\ matchers' = SubSeq(matchers, 1, i) \o ms
                                \o SubSeq(matchers, i + 2, Len(matchers))
               /\ Len(matchers') =
                    (IF Len(matchers) = 0 THEN 0 ELSE Len(matchers) - 1) + Len(ms)
      ]_vars

\* C1 witness: the middle one of three matchers has been replaced by two
C1_Witness ==
    /\ call.op = "updateMatcher"
    /\ call.index = 1
    /\ call.len = 2
    /\ Len(call.ms) = 2
    /\ Len(matchers) = 3
    /\ matchers[2] = call.ms[1]
    /\ matchers[3] = call.ms[2]

\* C2: deleteMatcher(m) removes by identity: every element that is the object m
\* goes, every other element stays in order (also one equal in value to m), and
\* when m does not occur the contents are unchanged.
C2_DeleteByIdentity ==
    [][ call'.op = "deleteMatcher"
        => LET m == call'.ms[1]
           IN  /\ matchers' = Without(matchers, m)
               /\ ~Occurs(matchers', m)
               /\ \A x \in Matchers \ {m} :
                    Without(matchers', x) = Without(Without(matchers, m), x)
               /\ \A i \in 1..Len(matchers) :
                    (matchers[i] # m /\ MatcherValue(matchers[i]) = MatcherValue(m))
                        => Occurs(matchers', matchers[i])
               /\ (~Occurs(matchers, m) => matchers' = matchers)
      ]_vars

\* C2 witness: m1 has been deleted from a list of three, and m2, the distinct
\* object of equal value, is still in the list
C2_Witness ==
    /\ call.op = "deleteMatcher"
    /\ call.ms = <<"m1">>
    /\ call.len = 3
    /\ Len(matchers) = 1
    /\ matchers = <<"m2">>

\* C3: the rule always has one handler, the argument of the most recent
\* updateHandler (the original one if there was none); updateHandler leaves the
\* matchers unchanged and the matcher operations leave the handler unchanged.
C3_HandlerIsLastUpdate ==
    /\ [](handler \in Handlers /\ handler = lastHandler)
    /\ [][ /\ call'.op = "updateHandler"
                => (handler' = call'.h /\ matchers' = matchers
                    /\ matchersObj' = matchersObj)
           /\ call'.op \in MatcherOps => handler' = handler
         ]_vars

\* C3 witness: a matcher operation has acted after an updateHandler("h2")
C3_Witness ==
    /\ call.op = "deleteMatcher"
    /\ call.len = 3
    /\ Len(matchers) = 2
    /\ lastHandler = "h2"
    /\ handler = "h2"

\* The badge the claim describes, from the first matcher alone
BadgeOfFirst(S) ==
    IF Len(S) = 0 THEN <<"transparent">>
    ELSE IF MatcherValue(S[1]).type = "method"
         THEN <<"getMethodColor", MatcherValue(S[1]).method>>
         ELSE <<"getMethodColor", "unknown">>

\* C4 as stated: the badge is that of the first matcher, and no add, replace or
\* delete at an index >= 1 changes it.
C4_AsClaimed ==
    /\ [](borderColor = BadgeOfFirst(matchers))
    /\ [][ (\/ call'.op = "addMatcher"
            \/ (call'.op = "updateMatcher" /\ call'.index >= 1)
            \/ (call'.op = "deleteMatcher" /\ call'.index >= 1))
           => borderColor' = borderColor ]_vars

\* C4 as amended: the badge is that of the first matcher; no add or replace at
\* an index >= 1 changes it, and no delete at an index >= 1 of a matcher that is
\* not the very object at index 0 changes it.
C4_BadgeOfFirstMatcher ==
    /\ [](borderColor = BadgeOfFirst(matchers))
    /\ [][ (\/ call'.op = "addMatcher"
            \/ (call'.op = "updateMatcher" /\ call'.index >= 1)
            \/ (call'.op = "deleteMatcher" /\ call'.index >= 1
                /\ call'.ms[1] # matchers[1]))
           => (borderColor' = borderColor /\ matchers'[1] = matchers[1]) ]_vars

\* C4 witness: a method matcher leads, and a later matcher of another kind
\* has just been deleted
C4_Witness ==
    /\ call.op = "deleteMatcher"
    /\ call.index >= 1
    /\ call.ms = <<"m3">>
    /\ call.len = 3
    /\ matchers = <<"m1", "m2">>
    /\ borderColor = <<"getMethodColor", "GET">>

\* C5: append is offered only when the rule has a matcher already, and
\* addMatcher(m) turns S into S ++ [m]: every matcher keeps its index and the
\* first matcher stays the first.
C5_AppendKeepsFirst ==
    [][ call'.op = "addMatcher"
        => /\ Len(matchers) > 0
           /\ matchers' = matchers \o call'.ms
           /\ Len(call'.ms) = 1
           /\ \A i \in 1..Len(matchers) : matchers'[i] = matchers[i]
           /\ initialMatcher' = initialMatcher
           /\ initialMatcher' # Undefined
      ]_vars

\* C5 witness: a matcher has been appended to a list of two
C5_Witness ==
    /\ call.op = "addMatcher"
    /\ call.len = 2
    /\ Len(matchers) = 3
    /\ matchers[3] = call.ms[1]
    /\ ~collapsed

\* C8 as stated: rule.matchers is always the array object it was at the start.
C8_AsClaimed == matchersObj = "list0"

\* C8 as amended: append and replace change the rule's array in place (the rule
\* references the same array object afterwards); remove assigns a newly built
\* array to rule.matchers, so the rule references another array object.
C8_InPlaceButDelete ==
    /\ [](matchersObj \in ListObjs)
    /\ [][ /\ call'.op \in {"addMatcher", "updateMatcher", "updateHandler", "toggleCollapse"}
                => matchersObj' = matchersObj
           /\ call'.op = "deleteMatcher"
                => (matchersObj' # matchersObj /\ matchersObj' # "list0")
         ]_vars

\* C8 witness: after a remove and a later append the rule references an array
\* that is not the original one
C8_Witness ==
    /\ call.op = "addMatcher"
    /\ matchersObj # "list0"
    /\ Len(matchers) = 3

\* C10 as stated: as long as every replace supplied a matcher, a rule that has a
\* matcher never loses its last one.
C10_AsClaimed ==
    [][ (Len(matchers) > 0 /\ ~replacedWithNone') => Len(matchers') > 0 ]_vars

\* C10 as amended: ... provided also that the object at index 0 does not occur
\* again at a later index.
C10_NeverEmptiedUnlessAliased ==
    [][ (/\ Len(matchers) > 0
         /\ ~replacedWithNone'
         /\ ~Occurs(Tail(matchers), matchers[1]))
        => (/\ Len(matchers') > 0
            /\ (call'.op = "deleteMatcher" => matchers'[1] = matchers[1]))
      ]_vars

\* C10 witness: a delete has left only the initial matcher, no replace ever
\* having supplied nothing
C10_Witness ==
    /\ call.op = "deleteMatcher"
    /\ call.len = 2
    /\ Len(matchers) = 1
    /\ ~replacedWithNone

\* ========================================================= InterceptOption

MaxCalls == 2        \* most calls of activateInterceptor explored
MaxShows == 2        \* most showRequests calls a custom config component makes

InterceptorIds == {"fresh-chrome", "existing-terminal"}

\* The values an activation promise may resolve with
Results == {TRUE, FALSE}

\* No rule row is mounted next to the card.
NoRow ==
    /\ matchers = <<>>
    /\ matchersObj = "list0"
    /\ handler = "h1"
    /\ lastHandler = "h1"
    /\ collapsed = TRUE
    /\ call = NoCall
    /\ replacedWithNone = FALSE

Did(op, result) == ocall' = [op |-> op, result |-> result]

\* interceptorStore.activateInterceptor(id, options): the call as the store
\* receives it; what the store then does to the interceptor is the store's
storeActivateInterceptor(id, options) ==
    activateCalls' = Append(activateCalls, [id |-> id, options |-> options])

\* activateInterceptor = (options?) =>
\*     interceptorStore.activateInterceptor(interceptor.id, options)
activateInterceptor(options) ==
    storeActivateInterceptor(interceptor.id, options)

\* variant of onActivated: without the test of successful
onActivatedAlwaysShows(successful) ==
    showRequestsCalls' = showRequestsCalls + 1

\* .then((successful) => { if (successful) { trackEvent(...); showRequests(); } })
onActivated(successful) ==
    IF successful
    THEN showRequestsCalls' = showRequestsCalls + 1
    ELSE UNCHANGED showRequestsCalls

\* variant of onClick: without the early return for a non-activable interceptor
onClickNoActivableCheck ==
    /\ IF interceptor.uiConfig
       THEN /\ expanded' = TRUE
            /\ UNCHANGED <<activateCalls, pendingClicks>>
       ELSE /\ storeActivateInterceptor(interceptor.id, Undefined)
            /\ pendingClicks' = pendingClicks + 1
            /\ UNCHANGED expanded
    /\ UNCHANGED interceptor

\* variant of onClick: also sets interceptor.inProgress
onClickMarksInProgress ==
    /\ IF ~interceptor.isActivable
       THEN UNCHANGED <<expanded, activateCalls, pendingClicks>>
       ELSE IF interceptor.uiConfig
       THEN /\ expanded' = TRUE
            /\ UNCHANGED <<activateCalls, pendingClicks>>
       ELSE /\ storeActivateInterceptor(interceptor.id, Undefined)
            /\ pendingClicks' = pendingClicks + 1
            /\ UNCHANGED expanded
    /\ interceptor' = [interceptor EXCEPT !.inProgress = TRUE]

\* onClick(): returns early unless activable; expands when there is a custom
\* UI config; otherwise asks the store to activate and waits for the promise
onClick ==
    /\ IF ~interceptor.isActivable
       THEN UNCHANGED <<expanded, activateCalls, pendingClicks>>
       ELSE IF interceptor.uiConfig
       THEN /\ expanded' = TRUE
            /\ UNCHANGED <<activateCalls, pendingClicks>>
       ELSE /\ storeActivateInterceptor(interceptor.id, Undefined)
            /\ pendingClicks' = pendingClicks + 1
            /\ UNCHANGED expanded
    /\ UNCHANGED interceptor

\* onClose(): this.expanded = false
onClose ==
    /\ expanded' = FALSE

\* render(): onClick={this.expanded ? undefined : this.onClick}
clickHandlerBound == ~expanded

\* render(): ConfigComponent && expanded ? <CloseButton/> <ConfigComponent/> : ...
\* (a custom UI config always carries its configComponent)
configShown == interceptor.uiConfig /\ expanded

\* ------------------------------------------------ InterceptOption: events

\* A click (or Enter, through clickOnEnter) on the card
CardClick ==
    /\ clickHandlerBound
    /\ (interceptor.isActivable /\ ~interceptor.uiConfig) => Len(activateCalls) < MaxCalls
    /\ onClick
    /\ Did("onClick", Undefined)
    /\ UNCHANGED <<showRequestsCalls, okSettled>>
    /\ UNCHANGED rowVars
    /\ UNCHANGED cardVars

\* <CloseButton onClose={this.onClose} />, or the config component's closeSelf
CardClose ==
    /\ configShown
    /\ onClose
    /\ Did("onClose", Undefined)
    /\ UNCHANGED <<interceptor, activateCalls, pendingClicks, showRequestsCalls, okSettled>>
    /\ UNCHANGED rowVars
    /\ UNCHANGED cardVars

\* The config component calls its activateInterceptor prop
ConfigActivates ==
    /\ configShown
    /\ Len(activateCalls) < MaxCalls
    /\ \E options \in {Undefined, "options"} : activateInterceptor(options)
    /\ Did("activateInterceptor", Undefined)
    /\ UNCHANGED <<expanded, interceptor, pendingClicks, showRequestsCalls, okSettled>>
    /\ UNCHANGED rowVars
    /\ UNCHANGED cardVars

\* The config component calls its showRequests prop, handed through unchanged
ConfigShowsRequests ==
    /\ configShown
    /\ showRequestsCalls < MaxShows
    /\ showRequestsCalls' = showRequestsCalls + 1
    /\ Did("configShowRequests", Undefined)
    /\ UNCHANGED <<expanded, interceptor, activateCalls, pendingClicks, okSettled>>
    /\ UNCHANGED rowVars
    /\ UNCHANGED cardVars

\* A promise returned to onClick resolves, and its then-callback runs
ActivationResolves ==
    /\ pendingClicks > 0
    /\ \E successful \in Results :
        /\ onActivated(successful)
        /\ okSettled' = IF successful THEN okSettled + 1 ELSE okSettled
        /\ Did("resolved", successful)
    /\ pendingClicks' = pendingClicks - 1
    /\ UNCHANGED <<expanded, interceptor, activateCalls>>
    /\ UNCHANGED rowVars
    /\ UNCHANGED cardVars

\* A promise returned to onClick is rejected: no callback is registered for that
ActivationRejects ==
    /\ pendingClicks > 0
    /\ pendingClicks' = pendingClicks - 1
    /\ Did("rejected", Undefined)
    /\ UNCHANGED <<expanded, interceptor, activateCalls, showRequestsCalls, okSettled>>
    /\ UNCHANGED rowVars
    /\ UNCHANGED cardVars

\* The interceptor store changes the activation state of the interceptor
StoreUpdatesInterceptor ==
    /\ \E a, b, c, d \in BOOLEAN :
        /\ interceptor' = [interceptor EXCEPT !.isActive = a, !.isActivable = b,
                                              !.isSupported = c, !.inProgress = d]
        /\ interceptor' # interceptor
    /\ Did("store", Undefined)
    /\ UNCHANGED <<expanded, activateCalls, pendingClicks, showRequestsCalls, okSettled>>
    /\ UNCHANGED rowVars
    /\ UNCHANGED cardVars

OptionInit ==
    /\ expanded = FALSE
    /\ interceptor \in [id : InterceptorIds, isActive : BOOLEAN, isActivable : BOOLEAN,
                        isSupported : BOOLEAN, inProgress : BOOLEAN, uiConfig : BOOLEAN]
    /\ activateCalls = <<>>
    /\ pendingClicks = 0
    /\ showRequestsCalls = 0
    /\ okSettled = 0
    /\ ocall = [op |-> "none", result |-> Undefined]
    /\ NoRow
    /\ NoCard

OptionNext ==
    \/ CardClick
    \/ CardClose
    \/ ConfigActivates
    \/ ConfigShowsRequests
    \/ ActivationResolves
    \/ ActivationRejects
    \/ StoreUpdatesInterceptor

SpecOption == OptionInit /\ [][OptionNext]_vars

\* ================================================ InterceptOption: claims

CardOps == {"onClick", "onClose", "activateInterceptor", "configShowRequests"}

\* C6: a click on a non-expanded card does exactly one of three things: not
\* activable - nothing; activable with a custom UI config - expands, no
\* activation; activable without one - one activateInterceptor call with the
\* interceptor's id, not expanded.  An expanded card takes no click, and
\* expanded becomes false again only through onClose.
C6_ClickDoesOneOfThree ==
    [][ /\ ocall'.op = "onClick" =>
            /\ ~expanded
            /\ ~interceptor.isActivable =>
                   (~expanded' /\ activateCalls' = activateCalls)
            /\ (interceptor.isActivable /\ interceptor.uiConfig) =>
                   (expanded' /\ activateCalls' = activateCalls)
            /\ (interceptor.isActivable /\ ~interceptor.uiConfig) =>
                   /\ ~expanded'
                   /\ Len(activateCalls') = Len(activateCalls) + 1
                   /\ SubSeq(activateCalls', 1, Len(activateCalls)) = activateCalls
                   /\ activateCalls'[Len(activateCalls')].id = interceptor.id
        /\ (expanded /\ ~expanded') => ocall'.op = "onClose"
        /\ (~expanded /\ expanded') => ocall'.op = "onClick"
      ]_vars

\* C6 witness: a second click on an activable card without custom UI config
\* has made the second activateInterceptor call
C6_Witness ==
    /\ ocall.op = "onClick"
    /\ interceptor.isActivable
    /\ ~interceptor.uiConfig
    /\ ~expanded
    /\ Len(activateCalls) = 2
    /\ activateCalls[2].id = interceptor.id

\* C7: no card operation (click, close, activation or showRequests asked for by
\* the config component) writes a field of the interceptor; all the card does to
\* the store is call activateInterceptor with its own interceptor's id.
C7_CardReadsInterceptorOnly ==
    /\ [](\A i \in 1..Len(activateCalls) : activateCalls[i].id = interceptor.id)
    /\ [][ /\ ocall'.op \in CardOps \cup {"resolved", "rejected"} => interceptor' = interceptor
           /\ ocall'.op \in {"onClose", "configShowRequests", "resolved", "rejected", "store"}
                => activateCalls' = activateCalls
           /\ activateCalls' # activateCalls
                => /\ Len(activateCalls') = Len(activateCalls) + 1
                   /\ activateCalls'[Len(activateCalls')].id = interceptor.id
         ]_vars

\* C7 witness: the config component of an expanded card has asked for an
\* activation, while the store shows the interceptor as in progress
C7_Witness ==
    /\ ocall.op = "activateInterceptor"
    /\ expanded
    /\ interceptor.inProgress
    /\ Len(activateCalls) = 2
    /\ activateCalls[2].id = interceptor.id

\* C9: without a custom UI config, showRequests is called only when an
\* activation started by a click resolves truthy, once for each: never before
\* it resolves, nor when it resolves falsy or is rejected.
C9_ShowRequestsAfterSuccess ==
    /\ [](~interceptor.uiConfig =>
            /\ showRequestsCalls = okSettled
            /\ showRequestsCalls + pendingClicks <= Len(activateCalls))
    /\ [][ ~interceptor.uiConfig =>
            /\ showRequestsCalls' # showRequestsCalls =>
                   /\ ocall'.op = "resolved"
                   /\ ocall'.result = TRUE
                   /\ pendingClicks > 0
                   /\ pendingClicks' = pendingClicks - 1
                   /\ showRequestsCalls' = showRequestsCalls + 1
            /\ (ocall'.op = "rejected" \/ (ocall'.op = "resolved" /\ ocall'.result = FALSE))
                   => showRequestsCalls' = showRequestsCalls
            /\ ocall'.op = "onClick" => showRequestsCalls' = showRequestsCalls
         ]_vars

\* C9 witness: of two click activations one resolved truthy and showRequests
\* was called once; the other has just resolved falsy
C9_Witness ==
    /\ ~interceptor.uiConfig
    /\ ocall.op = "resolved"
    /\ ocall.result = FALSE
    /\ Len(activateCalls) = 2
    /\ pendingClicks = 0
    /\ okSettled = 1
    /\ showRequestsCalls = 1

\* ========================================= ExchangeBreakpointResponseCard

MaxEdits == 3        \* most edits (onChange calls) explored
MaxHeaders == 2      \* longest header list an edit hands over

HeadersArrays == SeqsOf(HeaderPairs, 0, MaxHeaders)

\* headersArrayToHeaders(headers), imported from ../common/editable-headers:
\* applied, not interpreted (the result is kept apart from its argument)
headersArrayToHeaders(headers) == <<"headersArrayToHeaders", headers>>

\* ToBoolean of a status code: '', 0 and NaN are falsy, every other number truthy
Truthy(v) == v.type = "number" /\ ~v.nan /\ v.n # 0

\* a || b
LogicalOr(a, b) == IF Truthy(a) THEN a ELSE b

\* this.props.onChange(partial): the call as the owner of the exchange receives it
onChange(partial) ==
    /\ onChangeCount' = onChangeCount + 1
    /\ lastChange' = partial

\* onHeadersChanged(headers):
\*     this.props.onChange({ headers: headersArrayToHeaders(headers) })
onHeadersChanged(headers) ==
    /\ onChange([headers |-> headersArrayToHeaders(headers)])
    /\ UNCHANGED inProgressResult

\* variant of onStatusChange: statusCode ?? NaN, which keeps '' and 0
onStatusChangeNullish(statusCode, statusMessage) ==
    /\ onChange([statusCode |-> statusCode, statusMessage |-> statusMessage])
    /\ UNCHANGED inProgressResult

\* onStatusChange(statusCode, statusMessage):
\*     this.props.onChange({ statusCode: statusCode || NaN, statusMessage })
onStatusChange(statusCode, statusMessage) ==
    /\ onChange([statusCode |-> LogicalOr(statusCode, NaN), statusMessage |-> statusMessage])
    /\ UNCHANGED inProgressResult

\* { ...result, ...partial }
Merged(result, partial) ==
    [f \in DOMAIN result |-> IF f \in DOMAIN partial THEN partial[f] ELSE result[f]]

\* ------------------------------------- ExchangeBreakpointResponseCard: events

\* <EditableHeaders onChange={this.onHeadersChanged} />
HeadersEdited ==
    /\ onChangeCount < MaxEdits
    /\ \E headers \in HeadersArrays :
        /\ onHeadersChanged(headers)
        /\ bcall' = [op |-> "onHeadersChanged", statusCode |-> EmptyString,
                     statusMessage |-> Undefined, headers |-> headers]
    /\ UNCHANGED rowVars
    /\ UNCHANGED optionVars

\* <InlineEditableStatus onChange={this.onStatusChange} />
StatusEdited ==
    /\ onChangeCount < MaxEdits
    /\ \E statusCode \in StatusCodes, statusMessage \in StatusMessages :
        /\ onStatusChange(statusCode, statusMessage)
        /\ bcall' = [op |-> "onStatusChange", statusCode |-> statusCode,
                     statusMessage |-> statusMessage, headers |-> <<>>]
    /\ UNCHANGED rowVars
    /\ UNCHANGED optionVars

\* The owner of the exchange takes the reported partial result into the
\* in-progress result
OwnerAppliesChange ==
    /\ onChangeCount > 0
    /\ inProgressResult' = Merged(inProgressResult, lastChange)
    /\ inProgressResult' # inProgressResult
    /\ bcall' = [op |-> "owner", statusCode |-> EmptyString,
                 statusMessage |-> Undefined, headers |-> <<>>]
    /\ UNCHANGED <<onChangeCount, lastChange>>
    /\ UNCHANGED rowVars
    /\ UNCHANGED optionVars

CardInit ==
    /\ inProgressResult \in
         [statusCode : {JsNumber(200), JsNumber(404)},
          statusMessage : {Undefined, "OK"},
          headers : {headersArrayToHeaders(h) : h \in HeadersArrays}]
    /\ onChangeCount = 0
    /\ lastChange = NoChange
    /\ bcall = NoEdit
    /\ NoRow
    /\ NoOption

CardNext ==
    \/ HeadersEdited
    \/ StatusEdited
    \/ OwnerAppliesChange

SpecCard == CardInit /\ [][CardNext]_vars

\* ================================ ExchangeBreakpointResponseCard: claims

\* C11: each edit calls onChange exactly once, with a partial result holding the
\* edited fields only, and does not write the in-progress result: a headers edit
\* reports headers alone; a status edit reports statusCode and statusMessage
\* alone, the code as not-a-number when it was '' or 0 and unchanged otherwise.
C11_EditsReportPartialResult ==
    [][ /\ bcall'.op = "onHeadersChanged" =>
            /\ onChangeCount' = onChangeCount + 1
            /\ DOMAIN lastChange' = {"headers"}
            /\ lastChange'.headers = <<"headersArrayToHeaders", bcall'.headers>>
            /\ inProgressResult' = inProgressResult
        /\ bcall'.op = "onStatusChange" =>
            /\ onChangeCount' = onChangeCount + 1
            /\ DOMAIN lastChange' = {"statusCode", "statusMessage"}
            /\ lastChange'.statusMessage = bcall'.statusMessage
            /\ lastChange'.statusCode =
                 (IF bcall'.statusCode \in {EmptyString, JsNumber(0)}
                  THEN NaN ELSE bcall'.statusCode)
            /\ inProgressResult' = inProgressResult
        /\ onChangeCount' # onChangeCount =>
            bcall'.op \in {"onHeadersChanged", "onStatusChange"}
      ]_vars

\* C11 witness: a status edit with code 0 has been reported as not-a-number,
\* as the second edit, while the in-progress result still holds a number
C11_Witness ==
    /\ bcall.op = "onStatusChange"
    /\ bcall.statusCode = JsNumber(0)
    /\ bcall.statusMessage = "OK"
    /\ onChangeCount = 2
    /\ lastChange = [statusCode |-> NaN, statusMessage |-> "OK"]
    /\ ~inProgressResult.statusCode.nan

====
